---- MODULE Spec2Model ----
(***************************************************************************)
(* A model of deeptools/parserCommon.py: the argument validators           *)
(* genomicRegion, numberOfProcessors and writableFile, the output-format   *)
(* probe checkBigWig, the argparse parsers built by output(),              *)
(* normalization_options() and read_options(), and bam_total_reads.        *)
(* The worker pool and the Aggregator/Writer, which the file only          *)
(* configures, follow the design document.                                 *)
(*                                                                         *)
(* The module is Python 2 code (str.translate(None, deletechars)); its     *)
(* strings are modelled as sequences of one-character strings.             *)
(***************************************************************************)
EXTENDS Integers, Sequences, FiniteSets, TLC

\* ------------------------------------------------------------------ bounds
MaxRegionLen == 3
MaxProcLen == 3
MaxCores == 4
MaxArgs == 3
MaxChroms == 2
MaxIgnore == 2
MaxGenomeChroms == 2
UnitLen == 100

\* ----------------------------------------------------------------- strings
BoundedSeq(S, n) == UNION {[1..k -> S] : k \in 0..n}

\* the vertical tab, which has no escape in a TLA+ string
VT == ""

\* the six characters str.split() and int() treat as whitespace (C isspace)
Whitespace == {" ", "\t", "\n", "\r", "\f", VT}

Digits == {"0", "1", "2", "3", "4", "5", "6", "7", "8", "9"}

DigitVal(c) ==
    CASE c = "0" -> 0 [] c = "1" -> 1 [] c = "2" -> 2 [] c = "3" -> 3
      [] c = "4" -> 4 [] c = "5" -> 5 [] c = "6" -> 6 [] c = "7" -> 7
      [] c = "8" -> 8 [] c = "9" -> 9

\* string.split(): the maximal runs of non-whitespace characters, in order
RECURSIVE split(_)
split(s) ==
    IF s = <<>> THEN <<>>
    ELSE IF Head(s) \in Whitespace THEN split(Tail(s))
    ELSE LET stop == IF \E i \in 1..Len(s) : s[i] \in Whitespace
                     THEN CHOOSE i \in 1..Len(s) :
                              /\ s[i] \in Whitespace
                              /\ \A j \in 1..(i - 1) : s[j] \notin Whitespace
                     ELSE Len(s) + 1
         IN  <<SubSeq(s, 1, stop - 1)>> \o split(SubSeq(s, stop, Len(s)))

\* ''.join(words)
RECURSIVE join(_)
join(words) == IF words = <<>> THEN <<>> ELSE Head(words) \o join(Tail(words))

\* a translate that deletes only the first occurrence of each character
translate_firstOnly(s, deletechars) ==
    SelectSeq([i \in 1..Len(s) |-> <<s[i], \E j \in 1..(i - 1) : s[j] = s[i]>>],
              LAMBDA p : p[1] \notin deletechars \/ p[2])

\* str.translate(None, deletechars): every character of deletechars removed
translate(s, deletechars) == SelectSeq(s, LAMBDA c : c \notin deletechars)

\* a replace that leaves the string as it is
replace_nothing(s, old, new) == s

\* str.replace(old, new) for one-character old and new
replace(s, old, new) == [i \in 1..Len(s) |-> IF s[i] = old THEN new ELSE s[i]]

\* str.strip() as int() applies it to its argument
RECURSIVE lstrip(_)
lstrip(s) == IF s # <<>> /\ Head(s) \in Whitespace THEN lstrip(Tail(s)) ELSE s

RECURSIVE rstrip(_)
rstrip(s) ==
    IF s # <<>> /\ s[Len(s)] \in Whitespace THEN rstrip(SubSeq(s, 1, Len(s) - 1)) ELSE s

RECURSIVE Decimal(_)
Decimal(ds) ==
    IF ds = <<>> THEN 0
    ELSE 10 * Decimal(SubSeq(ds, 1, Len(ds) - 1)) + DigitVal(ds[Len(ds)])

\* int(string) of Python 2: whitespace, an optional sign, whitespace again,
\* decimal digits, whitespace; ok = FALSE stands for ValueError
int(s) ==
    LET t == rstrip(lstrip(s))
        signed == t # <<>> /\ t[1] \in {"+", "-"}
        ds == IF signed THEN lstrip(Tail(t)) ELSE t
    IN  IF ds # <<>> /\ \A i \in 1..Len(ds) : ds[i] \in Digits
        THEN [ok |-> TRUE, n |-> IF signed /\ t[1] = "-" THEN -Decimal(ds) ELSE Decimal(ds)]
        ELSE [ok |-> FALSE, n |-> 0]

\* "{} <text>".format(string)
format(string, text) == string \o <<text>>

\* whether needle occurs in hay as a contiguous run
Contains(hay, needle) ==
    \E i \in 1..(Len(hay) + 1) :
        /\ i + Len(needle) - 1 <= Len(hay)
        /\ SubSeq(hay, i, i + Len(needle) - 1) = needle

\* ----------------------------------------------------------------- results
\* the outcome of one call: not in use, not yet made, a returned value, a
\* returned None, or a raised argparse.ArgumentTypeError with its message
Off == [kind |-> "off", val |-> <<>>, msg |-> <<>>]
Pending == [kind |-> "pending", val |-> <<>>, msg |-> <<>>]
Return(v) == [kind |-> "return", val |-> v, msg |-> <<>>]
ReturnNone == [kind |-> "None", val |-> <<>>, msg |-> <<>>]
ArgumentTypeError(m) == [kind |-> "ArgumentTypeError", val |-> <<>>, msg |-> m]

\* ----------------------------------------------------------- genomicRegion
deletechars == {",", ";", "|", "!", "{", "}", "(", ")"}

\* genomicRegion without the early return of None
genomicRegion_noNone(string) ==
    LET region == replace(translate(join(split(string)), deletechars), "-", ":")
    IN  IF Len(region) = 0
        THEN ArgumentTypeError(format(string, " is not a valid region"))
        ELSE Return(region)

genomicRegion(string) ==
    LET stripped == join(split(string))
        region == replace(translate(stripped, deletechars), "-", ":")
    IN  IF stripped = <<>> THEN ReturnNone
        ELSE IF Len(region) = 0
        THEN ArgumentTypeError(format(string, " is not a valid region"))
        ELSE Return(region)

\* ------------------------------------------------------ numberOfProcessors
max == <<"m", "a", "x">>
max2 == <<"m", "a", "x", "/", "2">>

\* half of the processors, rounded up
half_roundUp(availProc) == (availProc + 1) \div 2

\* int(availProc * 0.5): the product is exact, int() truncates toward zero
half(availProc) ==
    IF availProc >= 0 THEN availProc \div 2 ELSE -((-availProc) \div 2)

\* no cap at all
cap_missing(n, availProc) == n

\* if numberOfProcessors > availProc: numberOfProcessors = availProc
cap(n, availProc) == IF n > availProc THEN availProc ELSE n

\* the message names the number of processors instead of the input
numberOfProcessors_msg_noInput(string) == <<" is not a valid number of processors">>

numberOfProcessors_msg(string) == format(string, " is not a valid number of processors")

\* int() raises nothing but ValueError on a str, so the second except clause
\* (lines 240-245) is never entered
numberOfProcessors(string, availProc) ==
    IF string = max2 THEN Return(half(availProc))
    ELSE IF string = max THEN Return(availProc)
    ELSE IF int(string).ok THEN Return(cap(int(string).n, availProc))
    ELSE ArgumentTypeError(numberOfProcessors_msg(string))

\* ------------------------------------------------------------ writableFile
\* the output paths of the model and what a path can be on disk: "absent" (can
\* be created), "file" (exists, writable), "readonly" (exists, not writable),
\* "nodir" (its directory is missing or not writable)
Paths == {<<"o">>, <<"d", "/", "o">>}
Contents == {<<>>, <<"x">>}
FileStates ==
    {[state |-> "absent", content |-> <<>>], [state |-> "nodir", content |-> <<>>]}
    \cup {[state |-> st, content |-> c] : st \in {"file", "readonly"}, c \in Contents}

\* whether open(string, 'w') succeeds
CanOpenForWriting(files, string) ==
    string \in DOMAIN files /\ files[string].state \in {"absent", "file"}

\* the file system after open(string, 'w').close(): the file exists and is empty
open_w_close(files, string) ==
    IF CanOpenForWriting(files, string)
    THEN [files EXCEPT ![string] = [state |-> "file", content |-> <<>>]]
    ELSE files

writableFile_msg(string) == format(string, " file can be opened for writing")

writableFile(string, files) ==
    IF CanOpenForWriting(files, string) THEN Return(string)
    ELSE ArgumentTypeError(writableFile_msg(string))

\* ------------------------------------------------------------- checkBigWig
bigwig == <<"b", "i", "g", "w", "i", "g">>
bedgraph == <<"b", "e", "d", "g", "r", "a", "p", "h">>
wig == <<"w", "i", "g">>

checkBigWig_msg == <<"The output is set by default to 'bedgraph'\n">>

\* the value checkBigWig returns; checkProgram is the answer of cfg.checkProgram
checkBigWig(string, checkProgram) ==
    IF string = bigwig /\ ~checkProgram THEN bedgraph ELSE string

\* what checkBigWig has written to sys.stderr
checkBigWig_stderr(string, checkProgram, err) ==
    IF string = bigwig /\ ~checkProgram THEN Append(err, checkBigWig_msg) ELSE err

\* ------------------------------------------------------------------- state
VARIABLES
    regionArg, regionRes,            \* genomicRegion: its argument and outcome
    procArg, availProc, procRes,     \* numberOfProcessors: argument, cpu_count(), outcome
    fileArg, fileRes,                \* writableFile: its argument and outcome
    fs,                              \* the files at the output paths
    fs0,                             \* the files as they were before the run
    encoder,                         \* whether cfg.checkProgram finds bedGraphToBigWig
    stderr,                          \* what has been written to sys.stderr
    argv, pos,                       \* the command line and the next argument of it
    ns,                              \* the argparse Namespace
    pc,                              \* the parser: "off", "build", "parse", "done", "error"
    idxstats, mapped,                \* pysam.idxstats(...) and bam_handle.mapped
    table,                           \* the mapped reads per chromosome of the BAM index
    chroms_to_ignore,                \* bam_total_reads' second argument
    lineNo, tot_mapped_reads, bamPc, \* bam_total_reads' loop, total and position
    units,                           \* the work units of the run
    finished,                        \* the units whose worker has completed, in that order
    sink,                            \* the records handed to the output sink
    aggPc                            \* the run: "off", "workers", "emitted"

vars == <<regionArg, regionRes, procArg, availProc, procRes, fileArg, fileRes, fs, fs0,
          encoder, stderr, argv, pos, ns, pc, idxstats, mapped, table,
          chroms_to_ignore, lineNo, tot_mapped_reads, bamPc,
          units, finished, sink, aggPc>>

regionVars == <<regionArg, regionRes>>
procVars == <<procArg, availProc, procRes>>
fileVars == <<fileArg, fileRes>>
parserVars == <<encoder, stderr, argv, pos, ns, pc>>
bamVars == <<idxstats, mapped, table, chroms_to_ignore, lineNo, tot_mapped_reads, bamPc>>
aggVars == <<units, finished, sink, aggPc>>

None == <<>>
Some(v) == <<v>>

\* Python's bool and int values: bool is a subclass of int, True is the
\* integer 1 and False the integer 0
PyBool(b) == [type |-> "bool", n |-> IF b THEN 1 ELSE 0]
PyInt(n) == [type |-> "int", n |-> n]

\* a == b on such values
PyEq(a, b) == a.n = b.n

\* the Namespace before output() has set the default of --outFileFormat
NoNamespace ==
    [outFileName |-> None, outFileFormat |-> None, normalizeTo1x |-> None,
     normalizeUsingRPKM |-> FALSE, extendReads |-> PyBool(FALSE)]

RegionIdle == regionArg = <<>> /\ regionRes = Off
ProcIdle == procArg = <<>> /\ availProc = 1 /\ procRes = Off
FileIdle == fileArg = <<>> /\ fileRes = Off
FsIdle == fs = [p \in Paths |-> [state |-> "absent", content |-> <<>>]] /\ fs0 = fs
ParserIdle ==
    /\ encoder = TRUE /\ stderr = <<>> /\ argv = <<>> /\ pos = 1
    /\ ns = NoNamespace /\ pc = "off"
BamIdle ==
    /\ idxstats = <<>> /\ mapped = 0 /\ table = <<>> /\ chroms_to_ignore = <<>>
    /\ lineNo = 1 /\ tot_mapped_reads = 0 /\ bamPc = "off"
AggIdle == units = {} /\ finished = <<>> /\ sink = <<>> /\ aggPc = "off"

\* ------------------------------------------------- the validators, one call
RegionAlphabet == {"c", "1", ":", "-", " ", "\t", VT} \cup deletechars
RegionInputs == BoundedSeq(RegionAlphabet, MaxRegionLen)

ProcAlphabet == {"m", "a", "x", "/", "0", "1", "2", "-", "+", " ", VT}
ProcInputs == BoundedSeq(ProcAlphabet, MaxProcLen) \cup {max, max2}

InitRegion ==
    /\ regionArg \in RegionInputs /\ regionRes = Pending
    /\ ProcIdle /\ FileIdle /\ FsIdle /\ ParserIdle /\ BamIdle /\ AggIdle

CallGenomicRegion ==
    /\ regionRes = Pending
    /\ regionRes' = genomicRegion(regionArg)
    /\ UNCHANGED <<fs0, aggVars, regionArg, procVars, fileVars, fs, parserVars, bamVars>>

InitProc ==
    /\ procArg \in ProcInputs /\ availProc \in 1..MaxCores /\ procRes = Pending
    /\ RegionIdle /\ FileIdle /\ FsIdle /\ ParserIdle /\ BamIdle /\ AggIdle

CallNumberOfProcessors ==
    /\ procRes = Pending
    /\ procRes' = numberOfProcessors(procArg, availProc)
    /\ UNCHANGED <<fs0, aggVars, procArg, availProc, regionVars, fileVars, fs, parserVars, bamVars>>

InitFile ==
    /\ fileArg \in Paths \cup {<<>>} /\ fileRes = Pending
    /\ fs \in [Paths -> FileStates] /\ fs0 = fs
    /\ RegionIdle /\ ProcIdle /\ ParserIdle /\ BamIdle /\ AggIdle

CallWritableFile ==
    /\ fileRes = Pending
    /\ fileRes' = writableFile(fileArg, fs)
    /\ fs' = open_w_close(fs, fileArg)
    /\ UNCHANGED <<fs0, aggVars, fileArg, regionVars, procVars, parserVars, bamVars>>

SpecRegion == InitRegion /\ [][CallGenomicRegion]_vars
SpecProc == InitProc /\ [][CallNumberOfProcessors]_vars
SpecFile == InitFile /\ [][CallWritableFile]_vars

InitValidators == InitRegion \/ InitProc \/ InitFile
NextValidators == CallGenomicRegion \/ CallNumberOfProcessors \/ CallWritableFile
SpecValidators == InitValidators /\ [][NextValidators]_vars

\* ------------------------------------------------------ the argparse parser
\* a parser with the parents output(), normalization_options() and
\* read_options(); of the options these define, the ones the claims speak of.
\* The value <<>> of --extendReads is the option given without a value.
OptionValues ==
    [outFileName |-> Paths,
     outFileFormat |-> {bigwig, bedgraph, wig},
     normalizeTo1x |-> {<<"2">>, <<"x">>},
     normalizeUsingRPKM |-> {<<>>},
     extendReads |-> {<<>>, <<"0">>, <<"1">>, <<"5">>, <<"-", " ", "1">>, <<"x">>}]

Arguments ==
    UNION {{[opt |-> o, val |-> v] : v \in OptionValues[o]} : o \in DOMAIN OptionValues}

\* command lines that give no option twice
CommandLines ==
    {a \in BoundedSeq(Arguments, MaxArgs) :
        \A i, j \in 1..Len(a) : a[i].opt = a[j].opt => i = j}

\* parser.error(message): the message goes to sys.stderr and the run exits
ArgumentError(option, message) == <<"error: argument ", option, ": ">> \o message

InitArgs ==
    /\ encoder \in BOOLEAN
    /\ fs \in [Paths -> FileStates] /\ fs0 = fs
    /\ argv \in CommandLines
    /\ stderr = <<>> /\ pos = 1 /\ ns = NoNamespace /\ pc = "build"
    /\ RegionIdle /\ ProcIdle /\ FileIdle /\ BamIdle /\ AggIdle

\* output(): the default of --outFileFormat is checkBigWig('bigwig')
output ==
    /\ pc = "build"
    /\ ns' = [ns EXCEPT !.outFileFormat = Some(checkBigWig(bigwig, encoder))]
    /\ stderr' = checkBigWig_stderr(bigwig, encoder, stderr)
    /\ pc' = "parse"
    /\ UNCHANGED <<fs0, aggVars, encoder, argv, pos, fs, regionVars, procVars, fileVars, bamVars>>

NextArgIs(option) == pc = "parse" /\ pos <= Len(argv) /\ argv[pos].opt = option

\* --outFileName, type=writableFile
ParseOutFileName ==
    /\ NextArgIs("outFileName")
    /\ LET r == writableFile(argv[pos].val, fs)
       IN  /\ fs' = open_w_close(fs, argv[pos].val)
           /\ IF r.kind = "return"
              THEN /\ ns' = [ns EXCEPT !.outFileName = Some(r.val)]
                   /\ pos' = pos + 1
                   /\ UNCHANGED <<pc, stderr>>
              ELSE /\ pc' = "error"
                   /\ stderr' = Append(stderr, ArgumentError("--outFileName/-o", r.msg))
                   /\ UNCHANGED <<ns, pos>>
    /\ UNCHANGED <<fs0, aggVars, encoder, argv, regionVars, procVars, fileVars, bamVars>>

\* --outFileFormat, choices=['bigwig', 'bedgraph']
ParseOutFileFormat ==
    /\ NextArgIs("outFileFormat")
    /\ IF argv[pos].val \in {bigwig, bedgraph}
       THEN /\ ns' = [ns EXCEPT !.outFileFormat = Some(argv[pos].val)]
            /\ pos' = pos + 1
            /\ UNCHANGED <<pc, stderr>>
       ELSE /\ pc' = "error"
            /\ stderr' = Append(stderr, ArgumentError("--outFileFormat/-of",
                                    <<"invalid choice: ">> \o argv[pos].val))
            /\ UNCHANGED <<ns, pos>>
    /\ UNCHANGED <<fs0, aggVars, encoder, argv, fs, regionVars, procVars, fileVars, bamVars>>

\* --normalizeTo1x, type=int, default=None
ParseNormalizeTo1x ==
    /\ NextArgIs("normalizeTo1x")
    /\ IF int(argv[pos].val).ok
       THEN /\ ns' = [ns EXCEPT !.normalizeTo1x = Some(int(argv[pos].val).n)]
            /\ pos' = pos + 1
            /\ UNCHANGED <<pc, stderr>>
       ELSE /\ pc' = "error"
            /\ stderr' = Append(stderr, ArgumentError("--normalizeTo1x",
                                    <<"invalid int value: ">> \o argv[pos].val))
            /\ UNCHANGED <<ns, pos>>
    /\ UNCHANGED <<fs0, aggVars, encoder, argv, fs, regionVars, procVars, fileVars, bamVars>>

\* --normalizeUsingRPKM, action='store_true'
ParseNormalizeUsingRPKM ==
    /\ NextArgIs("normalizeUsingRPKM")
    /\ ns' = [ns EXCEPT !.normalizeUsingRPKM = TRUE]
    /\ pos' = pos + 1
    /\ UNCHANGED <<fs0, aggVars, pc, stderr, encoder, argv, fs, regionVars, procVars, fileVars, bamVars>>

\* --extendReads, type=int, nargs='?', const=True, default=False
ParseExtendReads ==
    /\ NextArgIs("extendReads")
    /\ IF argv[pos].val = <<>>
       THEN /\ ns' = [ns EXCEPT !.extendReads = PyBool(TRUE)]
            /\ pos' = pos + 1
            /\ UNCHANGED <<pc, stderr>>
       ELSE IF int(argv[pos].val).ok
       THEN /\ ns' = [ns EXCEPT !.extendReads = PyInt(int(argv[pos].val).n)]
            /\ pos' = pos + 1
            /\ UNCHANGED <<pc, stderr>>
       ELSE /\ pc' = "error"
            /\ stderr' = Append(stderr, ArgumentError("--extendReads/-e",
                                    <<"invalid int value: ">> \o argv[pos].val))
            /\ UNCHANGED <<ns, pos>>
    /\ UNCHANGED <<fs0, aggVars, encoder, argv, fs, regionVars, procVars, fileVars, bamVars>>

\* the end of the command line: --outFileName is required=True
ParseEnd ==
    /\ pc = "parse" /\ pos > Len(argv)
    /\ IF ns.outFileName = None
       THEN /\ pc' = "error"
            /\ stderr' = Append(stderr, <<"error: argument --outFileName/-o is required">>)
       ELSE /\ pc' = "done"
            /\ UNCHANGED stderr
    /\ UNCHANGED <<fs0, aggVars, ns, pos, encoder, argv, fs, regionVars, procVars, fileVars, bamVars>>

NextArgs ==
    \/ output
    \/ ParseOutFileName
    \/ ParseOutFileFormat
    \/ ParseNormalizeTo1x
    \/ ParseNormalizeUsingRPKM
    \/ ParseExtendReads
    \/ ParseEnd

SpecArgs == InitArgs /\ [][NextArgs]_vars

\* --------------------------------------------------------- bam_total_reads
DigitChar(d) == CHOOSE c \in Digits : DigitVal(c) = d

\* the decimal text of a natural number
RECURSIVE str(_)
str(n) == IF n < 10 THEN <<DigitChar(n)>> ELSE str(n \div 10) \o <<DigitChar(n % 10)>>

\* line.split(sep): the fields between the separators
RECURSIVE splitOn(_, _)
splitOn(s, sep) ==
    IF \E i \in 1..Len(s) : s[i] = sep
    THEN LET i == CHOOSE k \in 1..Len(s) :
                      s[k] = sep /\ \A j \in 1..(k - 1) : s[j] # sep
         IN  <<SubSeq(s, 1, i - 1)>> \o splitOn(SubSeq(s, i + 1, Len(s)), sep)
    ELSE <<s>>

Range(f) == {f[i] : i \in DOMAIN f}

\* one line of pysam.idxstats: chromosome, length, mapped, unmapped
IdxstatsLine(chrom, len, nmapped, nunmapped) ==
    chrom \o <<"\t">> \o str(len) \o <<"\t">> \o str(nmapped) \o <<"\t">>
          \o str(nunmapped) \o <<"\n">>

\* the output of pysam.idxstats for a BAM index: a line per chromosome, then
\* the line of the reads without a chromosome
Idxstats(t) ==
    [i \in 1..Len(t) |-> IdxstatsLine(t[i].chrom, 100, t[i].nmapped, 1)]
        \o <<IdxstatsLine(<<"*">>, 0, 0, 5)>>

RECURSIVE SumMapped(_)
SumMapped(t) == IF t = <<>> THEN 0 ELSE Head(t).nmapped + SumMapped(Tail(t))

Chromosomes == {<<"1">>, <<"X">>, <<"M">>}
MappedCounts == {0, 3, 12}
IgnoreNames == {<<"1">>, <<"X">>, <<"Y">>}

\* BAM indexes: every chromosome of the header once
Tables ==
    {t \in BoundedSeq([chrom : Chromosomes, nmapped : MappedCounts], MaxChroms) :
        \A i, j \in 1..Len(t) : t[i].chrom = t[j].chrom => i = j}

InitBam ==
    /\ table \in Tables
    /\ idxstats = Idxstats(table)
    /\ mapped = SumMapped(table)
    /\ chroms_to_ignore \in BoundedSeq(IgnoreNames, MaxIgnore)
    /\ lineNo = 1 /\ tot_mapped_reads = 0 /\ bamPc = "call"
    /\ RegionIdle /\ ProcIdle /\ FileIdle /\ FsIdle /\ ParserIdle /\ AggIdle

\* a test against the first ignored chromosome only
counted_firstOnly(chrom, ignore) == chrom # ignore[1]

\* the test the wrong way round: chrom in chroms_to_ignore
counted_inverted(chrom, ignore) == chrom \in Range(ignore)

\* chrom not in chroms_to_ignore
counted(chrom, ignore) == chrom \notin Range(ignore)

\* if chroms_to_ignore: ... else: tot_mapped_reads = bam_handle.mapped
bam_total_reads ==
    /\ bamPc = "call"
    /\ IF chroms_to_ignore # <<>>
       THEN /\ tot_mapped_reads' = 0
            /\ lineNo' = 1
            /\ bamPc' = "loop"
       ELSE /\ tot_mapped_reads' = mapped
            /\ bamPc' = "return"
            /\ UNCHANGED lineNo
    /\ UNCHANGED <<fs0, aggVars, idxstats, mapped, table, chroms_to_ignore,
                   regionVars, procVars, fileVars, fs, parserVars>>

\* one turn of "for line in lines": the unpacking raises ValueError unless the
\* line has four fields; int(nmapped) is evaluated, and can raise, only for a
\* chromosome that is counted
bam_total_reads_line ==
    /\ bamPc = "loop" /\ lineNo <= Len(idxstats)
    /\ LET fields == splitOn(idxstats[lineNo], "\t")
       IN  IF Len(fields) # 4
           THEN /\ bamPc' = "ValueError"
                /\ UNCHANGED <<tot_mapped_reads, lineNo>>
           ELSE IF ~counted(fields[1], chroms_to_ignore)
           THEN /\ lineNo' = lineNo + 1
                /\ UNCHANGED <<tot_mapped_reads, bamPc>>
           ELSE IF ~int(fields[3]).ok
           THEN /\ bamPc' = "ValueError"
                /\ UNCHANGED <<tot_mapped_reads, lineNo>>
           ELSE /\ tot_mapped_reads' = tot_mapped_reads + int(fields[3]).n
                /\ lineNo' = lineNo + 1
                /\ UNCHANGED bamPc
    /\ UNCHANGED <<fs0, aggVars, idxstats, mapped, table, chroms_to_ignore,
                   regionVars, procVars, fileVars, fs, parserVars>>

\* the end of the loop
bam_total_reads_lines_done ==
    /\ bamPc = "loop" /\ lineNo > Len(idxstats)
    /\ bamPc' = "return"
    /\ UNCHANGED <<fs0, aggVars, tot_mapped_reads, lineNo, idxstats, mapped, table, chroms_to_ignore,
                   regionVars, procVars, fileVars, fs, parserVars>>

NextBam == bam_total_reads \/ bam_total_reads_line \/ bam_total_reads_lines_done

SpecBam == InitBam /\ [][NextBam]_vars

\* ------------------------------------- the workers and the Aggregator/Writer
\* --binSize, default=50
BinSize == 50

\* a genome: the lengths of its chromosomes, in the reader's order
Genomes ==
    UNION {[1..n -> {UnitLen, UnitLen + BinSize, 2 * UnitLen}] : n \in 1..MaxGenomeChroms}

Min(a, b) == IF a < b THEN a ELSE b

\* RegionPartitioner: every chromosome cut into units of at most UnitLen bases
Partition(genome) ==
    UNION {{[chrom |-> c, start |-> k * UnitLen,
             end |-> Min((k + 1) * UnitLen, genome[c])] :
                k \in 0..((genome[c] - 1) \div UnitLen)} : c \in DOMAIN genome}

\* the value of the bin at a position; the alignment source is read-only, so
\* the value does not depend on when the bin is computed
Coverage(chrom, start) == (chrom + start \div BinSize) % 3

\* Binner: the bins of a unit, BinSize wide, the last one cut at the unit's end
Bins(u) ==
    [i \in 1..((u.end - u.start + BinSize - 1) \div BinSize) |->
        [chrom |-> u.chrom,
         start |-> u.start + (i - 1) * BinSize,
         end |-> Min(u.start + i * BinSize, u.end),
         value |-> Coverage(u.chrom, u.start + (i - 1) * BinSize)]]

\* the order of the units: by chromosome (the reader's order), then by start
UnitBefore(u, v) == u.chrom < v.chrom \/ (u.chrom = v.chrom /\ u.start <= v.start)

RECURSIVE SortedByUnit(_)
SortedByUnit(S) ==
    IF S = {} THEN <<>>
    ELSE LET m == CHOOSE x \in S : \A y \in S : UnitBefore(x.unit, y.unit)
         IN  <<m>> \o SortedByUnit(S \ {m})

\* an Aggregator that emits the results in the order the workers completed
sortResults_completionOrder(results) == results

\* Aggregator: the per-unit results re-sorted by chromosome and start
sortResults(results) == SortedByUnit({results[i] : i \in DOMAIN results})

RECURSIVE Records(_)
Records(results) ==
    IF results = <<>> THEN <<>> ELSE Head(results).bins \o Records(Tail(results))

InitAgg ==
    /\ \E genome \in Genomes : units = Partition(genome)
    /\ finished = <<>> /\ sink = <<>> /\ aggPc = "workers"
    /\ RegionIdle /\ ProcIdle /\ FileIdle /\ FsIdle /\ ParserIdle /\ BamIdle

\* the worker of one unit completes; the pool completes its units in any order
WorkerCompletes ==
    /\ aggPc = "workers"
    /\ \E u \in units :
          /\ \A i \in 1..Len(finished) : finished[i].unit # u
          /\ finished' = Append(finished, [unit |-> u, bins |-> Bins(u)])
    /\ UNCHANGED <<units, sink, aggPc, fs, fs0, regionVars, procVars, fileVars,
                   parserVars, bamVars>>

\* after the join: the Aggregator sorts the results and hands the records to the sink
Aggregate ==
    /\ aggPc = "workers"
    /\ Len(finished) = Cardinality(units)
    /\ sink' = Records(sortResults(finished))
    /\ aggPc' = "emitted"
    /\ UNCHANGED <<units, finished, fs, fs0, regionVars, procVars, fileVars,
                   parserVars, bamVars>>

NextAgg == WorkerCompletes \/ Aggregate

SpecAgg == InitAgg /\ [][NextAgg]_vars

\* ------------------------------------------------------------- everything
Init == InitValidators \/ InitArgs \/ InitBam \/ InitAgg
Next == NextValidators \/ NextArgs \/ NextBam \/ NextAgg
Spec == Init /\ [][Next]_vars

\* ------------------------------------------------- claims: genomicRegion
RegionCalled == regionRes.kind \in {"return", "None", "ArgumentTypeError"}

\* C1: genomicRegion is idempotent on its output: when genomicRegion(s) returns
\* a region string r, genomicRegion(r) returns r again.
C1_Idempotent ==
    regionRes.kind = "return" => genomicRegion(regionRes.val) = Return(regionRes.val)

\* C1 witness: a region was returned that differs from the input it came from
C1_Witness == regionRes.kind = "return" /\ regionRes.val # regionArg

\* the positions of the input that the claim says are kept
KeptPositions(s) ==
    {i \in 1..Len(s) :
        s[i] \notin {" ", "\t", "\n", "\r", "\f", VT, ",", ";", "|", "!", "{", "}", "(", ")"}}

\* the k-th kept position, in the input's order
NthKept(s, k) ==
    CHOOSE i \in KeptPositions(s) : Cardinality({j \in KeptPositions(s) : j <= i}) = k

\* C2: a returned region is the input without its whitespace and without the
\* characters , ; | ! { } ( ), every hyphen replaced by a colon, the remaining
\* characters in their order; it holds no whitespace, punctuation or hyphen.
C2_CanonicalForm ==
    regionRes.kind = "return" =>
        /\ Len(regionRes.val) = Cardinality(KeptPositions(regionArg))
        /\ \A k \in 1..Len(regionRes.val) :
              /\ regionRes.val[k] =
                    IF regionArg[NthKept(regionArg, k)] = "-" THEN ":"
                    ELSE regionArg[NthKept(regionArg, k)]
              /\ regionRes.val[k] \notin
                    {" ", "\t", "\n", "\r", "\f", VT, ",", ";", "|", "!", "{", "}", "(", ")", "-"}

\* C2 witness: a region returned for an input with whitespace, punctuation and a hyphen
C2_Witness ==
    /\ regionRes.kind = "return"
    /\ \E i, j, k \in 1..Len(regionArg) :
          regionArg[i] = "-" /\ regionArg[j] = " " /\ regionArg[k] = "("

\* C3: the empty string and every string of whitespace only give None without
\* an error, and no input gives an empty region string.
C3_EmptyIsNone ==
    RegionCalled =>
        /\ (\A i \in 1..Len(regionArg) : regionArg[i] \in {" ", "\t", "\n", "\r", "\f", VT})
              => regionRes.kind = "None"
        /\ ~(regionRes.kind = "return" /\ regionRes.val = <<>>)

\* C3 witness: None returned for a non-empty string of whitespace
C3_Witness == regionRes.kind = "None" /\ Len(regionArg) >= 2

\* the canonical form the claims speak of
Canonical(s) == replace(translate(join(split(s)), deletechars), "-", ":")

IsChromosomeName(s) == s # <<>> /\ \A i \in 1..Len(s) : s[i] # ":"
IsInteger(s) == s # <<>> /\ \A i \in 1..Len(s) : s[i] \in Digits

\* CHR, or CHR:START:END with integer START and END
WellFormedRegion(c) ==
    \/ IsChromosomeName(c)
    \/ \E i, j \in 1..Len(c) :
          /\ i < j /\ c[i] = ":" /\ c[j] = ":"
          /\ IsChromosomeName(SubSeq(c, 1, i - 1))
          /\ IsInteger(SubSeq(c, i + 1, j - 1))
          /\ IsInteger(SubSeq(c, j + 1, Len(c)))

\* C7: an input whose canonical form is non-empty and is neither CHR nor
\* CHR:START:END with integer START and END makes genomicRegion raise an error.
C7_MalformedRejected ==
    (RegionCalled /\ Canonical(regionArg) # <<>> /\ ~WellFormedRegion(Canonical(regionArg)))
        => regionRes.kind = "ArgumentTypeError"

\* -------------------------------------------- claims: numberOfProcessors
ProcCalled == procRes.kind \in {"return", "ArgumentTypeError"}

\* C4: with A >= 1 available cores, "max" gives A and "max/2" gives floor(A/2).
C4_MaxAndHalf ==
    (ProcCalled /\ availProc >= 1) =>
        /\ procArg = <<"m", "a", "x">> => procRes = Return(availProc)
        /\ procArg = <<"m", "a", "x", "/", "2">> =>
              /\ procRes.kind = "return"
              /\ 2 * procRes.val <= availProc
              /\ availProc < 2 * procRes.val + 2

\* C4 witness: "max/2" resolved on a machine with an odd number of cores
C4_Witness ==
    /\ procArg = <<"m", "a", "x", "/", "2">> /\ procRes.kind = "return"
    /\ availProc = 3 /\ procRes.val = 1

\* C5: an integer string n gives min(n, A), and no returned count exceeds A.
C5_CappedAtAvailable ==
    ProcCalled =>
        /\ int(procArg).ok =>
              /\ procRes.kind = "return"
              /\ procRes.val <= int(procArg).n
              /\ procRes.val <= availProc
              /\ procRes.val \in {int(procArg).n, availProc}
        /\ procRes.kind = "return" => procRes.val <= availProc

\* C5 witness: a request for more cores than there are, answered with A
C5_Witness ==
    /\ int(procArg).ok /\ int(procArg).n > availProc
    /\ procRes = Return(availProc)

\* ---------------------------------------------- claims: the error messages
\* C6: every error of numberOfProcessors, genomicRegion and writableFile is an
\* argument error whose message holds the input as given, and a processor count
\* that is neither "max", "max/2" nor an integer never yields a value.
C6_ErrorsNameInput ==
    /\ regionRes.kind = "ArgumentTypeError" => Contains(regionRes.msg, regionArg)
    /\ procRes.kind = "ArgumentTypeError" => Contains(procRes.msg, procArg)
    /\ fileRes.kind = "ArgumentTypeError" => Contains(fileRes.msg, fileArg)
    /\ (/\ ProcCalled
        /\ procArg \notin {<<"m", "a", "x">>, <<"m", "a", "x", "/", "2">>}
        /\ ~int(procArg).ok)
          => procRes.kind = "ArgumentTypeError"

\* C6 witness: a non-numeric processor count was rejected
C6_Witness ==
    /\ procRes.kind = "ArgumentTypeError" /\ Len(procArg) = 3
    /\ procArg[1] = "m" /\ procArg[2] = "a" /\ procArg[3] = "/"

\* ------------------------------------------------------ claims: the parser
\* C8: in every resolved configuration at most one of RPGC (--normalizeTo1x)
\* and RPKM (--normalizeUsingRPKM) is active; a request for both is rejected.
C8_NormalizationExclusive ==
    pc = "done" => ~(ns.normalizeTo1x # None /\ ns.normalizeUsingRPKM)

\* C9: without the bigwig encoder the format finally selected is bedgraph and a
\* warning is on sys.stderr; with it, bigwig stays bigwig and there is no warning.
C9_FallsBackToBedgraph ==
    pc = "done" =>
        /\ ~encoder =>
              /\ ns.outFileFormat = Some(bedgraph)
              /\ \E i \in 1..Len(stderr) : stderr[i] = checkBigWig_msg
        /\ encoder =>
              /\ \A i \in 1..Len(stderr) : stderr[i] # checkBigWig_msg
              /\ (\A i \in 1..Len(argv) :
                      argv[i].opt = "outFileFormat" => argv[i].val = bigwig)
                    => ns.outFileFormat = Some(bigwig)

\* ---------------------------------------------- claims: bam_total_reads
RECURSIVE SumOver(_, _)
SumOver(S, t) ==
    IF S = {} THEN 0
    ELSE LET i == CHOOSE x \in S : TRUE IN t[i].nmapped + SumOver(S \ {i}, t)

\* C10: with a non-empty list of chromosomes to ignore, bam_total_reads returns
\* the sum of the mapped reads of the chromosomes that are not in the list.
C10_IgnoredNotCounted ==
    (bamPc = "return" /\ chroms_to_ignore # <<>>) =>
        tot_mapped_reads =
            SumOver({i \in 1..Len(table) :
                        \A k \in 1..Len(chroms_to_ignore) :
                            table[i].chrom # chroms_to_ignore[k]},
                    table)

\* C10 witness: a total that leaves out the reads of an ignored chromosome
\* named second in the list, and counts another chromosome's
C10_Witness ==
    /\ bamPc = "return" /\ Len(chroms_to_ignore) = 2 /\ Len(table) = 2
    /\ table[1].chrom = chroms_to_ignore[2] /\ table[1].nmapped = 12
    /\ table[2].chrom \notin Range(chroms_to_ignore) /\ table[2].nmapped = 3
    /\ tot_mapped_reads = 3

\* C11: when argument resolution ends in a fatal error, the file at
\* --outFileName has been neither created nor modified by the run.
C11_NoOutputOnFailure ==
    pc = "error" =>
        \A i \in 1..Len(argv) :
            argv[i].opt = "outFileName" => fs[argv[i].val] = fs0[argv[i].val]

\* C13: the two ways of counting agree: without a list of chromosomes to ignore
\* the total is the mapped count the BAM file reports, and with a list that
\* names no chromosome of the file the sum over the lines is that same count.
C13_BothWaysAgree ==
    (/\ bamPc = "return"
     /\ \A k \in 1..Len(chroms_to_ignore), i \in 1..Len(table) :
            chroms_to_ignore[k] # table[i].chrom)
        => tot_mapped_reads = mapped

\* C13 witness: the lines were summed, under a list that names no chromosome
\* of the file, to the count the file reports
C13_Witness ==
    /\ bamPc = "return" /\ chroms_to_ignore = <<<<"Y">>>> /\ lineNo > Len(idxstats)
    /\ Len(table) = 2 /\ table[1].nmapped = 3 /\ table[2].nmapped = 12
    /\ tot_mapped_reads = 15 /\ mapped = 15

\* C15: every accepted processor count resolves, with A >= 1 available cores,
\* to at least 1.
C15_AtLeastOne ==
    (procRes.kind = "return" /\ availProc >= 1) => procRes.val >= 1

\* C16: writableFile returns a path that can be opened for writing unchanged,
\* and leaves the existence and the contents of the file as they were.
C16_OnlyTests ==
    fileRes.kind = "return" => (fileRes.val = fileArg /\ fs = fs0)

\* C14: --extendReads resolves to three configurations that can be told
\* apart: False when absent, True when given without a value, N when given
\* with an integer N; no N resolves to what the absent or the valueless form
\* resolves to.
C14_ThreeStates ==
    pc = "done" =>
        /\ (\A i \in 1..Len(argv) : argv[i].opt # "extendReads")
              => ns.extendReads = PyBool(FALSE)
        /\ \A i \in 1..Len(argv) : argv[i].opt = "extendReads" =>
              IF argv[i].val = <<>>
              THEN ns.extendReads = PyBool(TRUE)
              ELSE /\ ns.extendReads = PyInt(int(argv[i].val).n)
                   /\ ~PyEq(ns.extendReads, PyBool(TRUE))
                   /\ ~PyEq(ns.extendReads, PyBool(FALSE))

\* ---------------------------------------------- claims: the Aggregator
\* whether record a comes wholly before record b in genomic order
RecordBefore(a, b) == a.chrom < b.chrom \/ (a.chrom = b.chrom /\ a.end <= b.start)

AllRecords == UNION {{Bins(u)[i] : i \in DOMAIN Bins(u)} : u \in units}

\* C12: whatever the order in which the workers complete, the sink receives
\* the same sequence: every record of every unit once, in strictly increasing
\* genomic order without overlap (there is one such sequence).
C12_OrderIndependent ==
    aggPc = "emitted" =>
        /\ \A i \in 1..(Len(sink) - 1) : RecordBefore(sink[i], sink[i + 1])
        /\ \A i \in 1..Len(sink) : sink[i].start < sink[i].end
        /\ {sink[i] : i \in 1..Len(sink)} = AllRecords
        /\ Len(sink) = Cardinality(AllRecords)

\* C12 witness: records emitted after the workers completed out of genomic order
C12_Witness ==
    /\ aggPc = "emitted" /\ Len(finished) >= 3
    /\ finished[1].unit.chrom = 2 /\ finished[1].unit.start > 0
    /\ finished[Len(finished)].unit.chrom = 1
    /\ sink[1].chrom = 1 /\ sink[1].start = 0

====
